---- MODULE Spec2Model ----
(***************************************************************************)
(* Model of Notebooks/1.using_reader.ipynb: reprojection of a fire ring,   *)
(* the nearest-perimeter-point scan, and the filter loop that retains the  *)
(* fires within a distance threshold of the place.                         *)
(*                                                                         *)
(* Encoding of Python values                                               *)
(*   - a list or tuple is a sequence; a dict is a record, a missing key is *)
(*     a missing field;                                                    *)
(*   - a value that may be a number or something that is not a number (a   *)
(*     coordinate component, Fire_Year) is <<n>> for the number n and <<>> *)
(*     for the non-number (None, a non-numeric string);                    *)
(*   - the outcome of a call is [exc, val]: exc = "none" and the returned  *)
(*     value, or the name of the exception raised and val = <<>>.          *)
(*                                                                         *)
(* Abstraction of pyproj                                                   *)
(*   Coordinates are whole degrees. The projected system is a shift of the *)
(*   geographic one by the projection's origin, with the axes in (x, y) =  *)
(*   (easting, northing) order, while EPSG:4326 is (lat, lon). The         *)
(*   geodesic distance is a weighted taxicab distance counted in units     *)
(*   whose conversion to miles is exact.                                   *)
(***************************************************************************)
EXTENDS Integers, Sequences, FiniteSets, TLC

VARIABLES
    pc,               \* position in the notebook: which cell runs next
    file,             \* what FILENAME holds: the features, or "missing"
    features,         \* gj_data['features'] (the dicts the loop works on)
    idx,              \* number of features the for loop has taken
    attributes_list,  \* references (positions in features) to retained dicts
    console,          \* the lines printed so far
    ring_data,        \* the notebook's global of that name
    distance,         \* the notebook's global of that name
    df,               \* the DataFrame: one row per retained dict
    csv,              \* the rows of output.csv, <<"absent">> before export
    trace,            \* what the last iteration of the loop handed to
                      \* transform and to geodcalc.inv
    input,            \* the place and the ring the functions are tried on
    call,             \* the last direct call of one of the two functions
    first_conv,       \* the first direct call of convert_ring_to_epsg4326,
                      \* and whether another ring was converted since
    scan              \* the for loop of the distance function, step by step

pipeVars == <<pc, file, features, idx, attributes_list, console, ring_data,
              distance, df, csv, trace>>
fnVars == <<input, call, first_conv, scan>>
vars == <<pipeVars, fnVars>>

(* ----------------------------- bounds ---------------------------------- *)
MaxRingLen == 2
MaxFeatures == 2

(* ------------------------ program constants ---------------------------- *)
MinYear == 1963
MaxYear == 2023
Threshold == 1250
MilesPerUnit == 250
LatOrigin == 40
LonOrigin == -96
LatWeight == 2

CITY_LOCATION == [city |-> "West Odessa", latlon |-> <<32, -102>>]

(* --------------------------- Python values ----------------------------- *)
Num(n) == <<n>>
NotNum == <<>>
IsNum(v) == Len(v) = 1
Val(v) == v[1]

Ok(v) == [exc |-> "none", val |-> v]
Raise(e) == [exc |-> e, val |-> <<>>]

Abs(n) == IF n < 0 THEN -n ELSE n

(* ------------------------------ pyproj --------------------------------- *)
\* Transformer.from_crs("ESRI:102008","EPSG:4326").transform(x, y): the
\* outcome is (lat, lon); a component that is not a number raises TypeError.
Transform(x, y) ==
    IF ~IsNum(x) \/ ~IsNum(y) THEN Raise("TypeError")
    ELSE Ok(<<Val(y) + LatOrigin, Val(x) + LonOrigin>>)

\* Geod(ellps='WGS84').inv(lon1, lat1, lon2, lat2): forward azimuth, back
\* azimuth, distance.
GeodInv(lon1, lat1, lon2, lat2) ==
    << IF lat2 >= lat1 THEN 0 ELSE 180,
       IF lat2 >= lat1 THEN 180 ELSE 0,
       LatWeight * Abs(lat2 - lat1) + Abs(lon2 - lon1) >>

(* --------------------- convert_ring_to_epsg4326 ------------------------ *)
\* converted_ring = list() that keeps the list the last call returned
StaleList ==
    IF call.fn = "convert" /\ call.result.exc = "none" THEN call.result.val
    ELSE <<>>

\* converted_ring = list()
NewList == <<>>

\* the body of the loop with the converted coordinate put in front
ConvertStepPrepend(converted_ring, coord) ==
    IF Len(coord) < 2 THEN Raise("IndexError")
    ELSE LET t == Transform(coord[1], coord[2])
         IN  IF t.exc # "none" THEN t
             ELSE Ok(<<t.val>> \o converted_ring)

\* the body of the loop given a coordinate that was converted already, and
\* converting it again
ConvertStepTwice(converted_ring, coord) ==
    IF Len(coord) < 2 THEN Raise("IndexError")
    ELSE LET t == Transform(coord[1], coord[2])
         IN  IF t.exc # "none" THEN t
             ELSE Ok(Append(converted_ring,
                            Transform(Num(t.val[1]), Num(t.val[2])).val))

\* one iteration of "for coord in ring_data": coord[0] and coord[1] raise
\* IndexError on a coordinate that is too short, transform raises on a
\* component that is not a number, otherwise the pair is appended.
ConvertStep(converted_ring, coord) ==
    IF Len(coord) < 2 THEN Raise("IndexError")
    ELSE LET t == Transform(coord[1], coord[2])
         IN  IF t.exc # "none" THEN t
             ELSE Ok(Append(converted_ring, t.val))

RECURSIVE ConvertLoop(_, _, _)
ConvertLoop(ringData, k, converted_ring) ==
    IF k > Len(ringData) THEN Ok(converted_ring)
    ELSE LET s == ConvertStep(converted_ring, ringData[k])
         IN  IF s.exc # "none" THEN s
             ELSE ConvertLoop(ringData, k + 1, s.val)

convert_ring_to_epsg4326(ringData) ==
    ConvertLoop(ringData, 1, NewList)

(* ------------ shortest_distance_from_place_to_fire_perimeter ----------- *)
\* the scan that keeps whatever it saw first
ScanStepKeepFirst(place, closest_point, point) ==
    LET d == GeodInv(place[2], place[1], point[2], point[1])
        distance_in_miles == d[3] * MilesPerUnit
    IN  IF Len(closest_point) = 0 THEN <<distance_in_miles, point>>
        ELSE closest_point

\* the scan that lowers the distance and leaves the point behind
ScanStepStalePoint(place, closest_point, point) ==
    LET d == GeodInv(place[2], place[1], point[2], point[1])
        distance_in_miles == d[3] * MilesPerUnit
    IN  IF Len(closest_point) = 0 THEN <<distance_in_miles, point>>
        ELSE IF closest_point[1] > distance_in_miles
             THEN <<distance_in_miles, closest_point[2]>>
             ELSE closest_point

\* the scan that also replaces the point on an equal distance
ScanStepLastTie(place, closest_point, point) ==
    LET d == GeodInv(place[2], place[1], point[2], point[1])
        distance_in_miles == d[3] * MilesPerUnit
    IN  IF Len(closest_point) = 0 THEN <<distance_in_miles, point>>
        ELSE IF closest_point[1] >= distance_in_miles
             THEN <<distance_in_miles, point>>
             ELSE closest_point

\* the scan with the comparison turned around
ScanStepReversed(place, closest_point, point) ==
    LET d == GeodInv(place[2], place[1], point[2], point[1])
        distance_in_miles == d[3] * MilesPerUnit
    IN  IF Len(closest_point) = 0 THEN <<distance_in_miles, point>>
        ELSE IF closest_point[1] < distance_in_miles
             THEN <<distance_in_miles, point>>
             ELSE closest_point

\* one iteration of "for point in ring"
ScanStep(place, closest_point, point) ==
    LET d == GeodInv(place[2], place[1], point[2], point[1])
        distance_in_miles == d[3] * MilesPerUnit
    IN  IF Len(closest_point) = 0 THEN <<distance_in_miles, point>>
        ELSE IF closest_point[1] > distance_in_miles
             THEN <<distance_in_miles, point>>
             ELSE closest_point

RECURSIVE ScanLoop(_, _, _, _)
ScanLoop(place, ring, k, closest_point) ==
    IF k > Len(ring) THEN closest_point
    ELSE ScanLoop(place, ring, k + 1, ScanStep(place, closest_point, ring[k]))

\* the function answering a ring without points with a distance of zero
ShortestZeroOnEmpty(place, ringData) ==
    LET ring == convert_ring_to_epsg4326(ringData)
    IN  IF ring.exc # "none" THEN ring
        ELSE IF Len(ring.val) = 0 THEN Ok(<<0, place>>)
        ELSE Ok(ScanLoop(place, ring.val, 1, <<>>))

shortest_distance_from_place_to_fire_perimeter(place, ringData) ==
    LET ring == convert_ring_to_epsg4326(ringData)
    IN  IF ring.exc # "none" THEN ring
        ELSE Ok(ScanLoop(place, ring.val, 1, <<>>))

(* ----------------------------- inputs ---------------------------------- *)
SeqsUpTo(S, n) == UNION {[1..k -> S] : k \in 0..n}

\* the projected coordinate of the point at (lat, lon)
Raw(lat, lon) == <<Num(lon - LonOrigin), Num(lat - LatOrigin)>>

PlaceLat == CITY_LOCATION.latlon[1]
PlaceLon == CITY_LOCATION.latlon[2]

AtPlace == Raw(PlaceLat, PlaceLon)            \* 0 miles from the place
East == Raw(PlaceLat, PlaceLon + 1)           \* 250 miles
West == Raw(PlaceLat, PlaceLon - 1)           \* 250 miles
Edge == Raw(PlaceLat + 2, PlaceLon + 1)       \* 1250 miles
Far == Raw(PlaceLat + 3, PlaceLon)            \* 1500 miles
TooShort == <<Num(PlaceLon - LonOrigin)>>     \* one component
NotNumeric == <<NotNum, Num(PlaceLat - LatOrigin)>>

FnCoords == {AtPlace, East, West, Edge, Far, TooShort, NotNumeric}
FnRings == SeqsUpTo(FnCoords, MaxRingLen)
FnPlaces == {CITY_LOCATION.latlon, <<PlaceLat + 2, PlaceLon + 1>>}

WellFormed(coord) == Len(coord) >= 2 /\ IsNum(coord[1]) /\ IsNum(coord[2])
WellFormedRing(ring) == \A k \in 1..Len(ring) : WellFormed(ring[k])

\* rings of the features: every ring of fires at and beyond the threshold,
\* and rings with a malformed coordinate, first or after a good one
PipeCoords == {Edge, Far}
MalformedRings == {<<TooShort>>, <<Edge, TooShort>>}
PipeRings == SeqsUpTo(PipeCoords, MaxRingLen) \cup MalformedRings

\* Fire_Year values: the lower bound of the range, tried with every
\* geometry, and, tried with a few geometries, the upper bound, a year just
\* outside the range on either side and None (no Fire_Year at all is the
\* dict without the key)
YearsFull == {Num(MinYear)}
YearsFew == {Num(MaxYear), Num(MinYear - 1), Num(MaxYear + 1), NotNum}
AttributeSets(years) == {[GIS_Acres |-> 10, Fire_Year |-> y] : y \in years}
\* geometries of several rings, the one with the most vertices second or
\* first
MultiRingGeometries ==
    {[rings |-> << <<Far>>, <<Edge, Far>> >>],
     [rings |-> << <<Edge, Far>>, <<Far>> >>]}
Geometries ==
    {[rings |-> <<r>>] : r \in PipeRings}
        \cup {[rings |-> <<>>], [curveRings |-> <<>>]}
        \cup MultiRingGeometries
FewGeometries == {[rings |-> <<>>], [rings |-> << <<Edge>> >>]}
WithGeometry(as, gs) ==
    {[attributes |-> a, geometry |-> g] : a \in as, g \in gs}
        \cup {[attributes |-> a] : a \in as}
Features ==
    WithGeometry(AttributeSets(YearsFull), Geometries)
        \cup WithGeometry(AttributeSets(YearsFew) \cup {[GIS_Acres |-> 10]},
                          FewGeometries)
Files ==
    {[exists |-> TRUE, features |-> fs] : fs \in SeqsUpTo(Features, MaxFeatures)}
        \cup {[exists |-> FALSE, features |-> <<>>]}

(* ------------------------ direct function calls ------------------------ *)
NoCall == [fn |-> "none", place |-> CITY_LOCATION.latlon, arg |-> <<>>,
           arg_after |-> <<>>, result |-> Ok(<<>>)]
NoConv == [seen |-> FALSE, arg |-> <<>>, result |-> Ok(<<>>),
           between |-> FALSE]

NoTrace == [transformed |-> <<>>, measured |-> <<>>]
NoScan == [place |-> CITY_LOCATION.latlon, ring |-> <<>>, k |-> 0,
           closest_point |-> <<>>]

PipeIdle ==
    /\ pc = "idle" /\ file = [exists |-> FALSE, features |-> <<>>]
    /\ features = <<>> /\ idx = 0 /\ attributes_list = <<>> /\ console = <<>>
    /\ ring_data = <<>> /\ distance = <<>>
    /\ df = [defined |-> FALSE, rows |-> <<>>]
    /\ csv = [written |-> FALSE, rows |-> <<>>]
    /\ trace = NoTrace

\* rings converted between two conversions of the ring under study
OtherRings == {<<East>>, <<Far, West>>, <<TooShort>>}

InitFn ==
    /\ PipeIdle
    /\ input \in [place : FnPlaces, ring : FnRings]
    /\ call = NoCall /\ first_conv = NoConv /\ scan = NoScan

\* convert_ring_to_epsg4326(ring): the function reads the caller's list
\* through "for coord in ring_data" and never writes to it.
CallConvert(ring) ==
    LET r == convert_ring_to_epsg4326(ring)
    IN  /\ call' = [fn |-> "convert", place |-> call.place, arg |-> ring,
                    arg_after |-> ring, result |-> r]
        /\ first_conv' =
               IF ~first_conv.seen
               THEN [seen |-> TRUE, arg |-> ring, result |-> r,
                     between |-> FALSE]
               ELSE [first_conv EXCEPT
                        !.between = @ \/ ring # first_conv.arg]
        /\ UNCHANGED <<input, scan, pipeVars>>

CallShortest(place, ring) ==
    /\ call' = [fn |-> "shortest", place |-> place, arg |-> ring,
                arg_after |-> ring,
                result |-> shortest_distance_from_place_to_fire_perimeter(place, ring)]
    /\ UNCHANGED <<input, first_conv, scan, pipeVars>>

ConvertInput == CallConvert(input.ring)
ConvertOther == \E ring \in OtherRings : CallConvert(ring)
ShortestInput == CallShortest(input.place, input.ring)

NextFn == ConvertInput \/ ConvertOther \/ ShortestInput

SpecFn == InitFn /\ [][NextFn]_vars

(* ------------------ the scan of the ring, step by step ----------------- *)
\* the rings the scan runs over: what convert_ring_to_epsg4326 returned
ScanRings ==
    {convert_ring_to_epsg4326(r).val : r \in {q \in FnRings : WellFormedRing(q)}}

\* closest_point = list(), before "for point in ring"
InitScan ==
    /\ PipeIdle
    /\ input = [place |-> CITY_LOCATION.latlon, ring |-> <<>>]
    /\ call = NoCall /\ first_conv = NoConv
    /\ scan \in {[place |-> p, ring |-> r, k |-> 0, closest_point |-> <<>>] :
                    p \in FnPlaces, r \in ScanRings}

\* one iteration of "for point in ring"
ScanIter ==
    /\ scan.k < Len(scan.ring)
    /\ scan' = [scan EXCEPT
                   !.k = @ + 1,
                   !.closest_point =
                       ScanStep(scan.place, @, scan.ring[scan.k + 1])]
    /\ UNCHANGED <<input, call, first_conv, pipeVars>>

NextScan == ScanIter

SpecScan == InitScan /\ [][NextScan]_vars

(* ---------------------------- the pipeline ---------------------------- *)
FnIdle ==
    /\ input = [place |-> CITY_LOCATION.latlon, ring |-> <<>>]
    /\ call = NoCall /\ first_conv = NoConv /\ scan = NoScan

Init ==
    /\ pc = "load"
    /\ file \in Files
    /\ features = <<>> /\ idx = 0 /\ attributes_list = <<>> /\ console = <<>>
    /\ ring_data = <<>> /\ distance = <<>>
    /\ df = [defined |-> FALSE, rows |-> <<>>]
    /\ csv = [written |-> FALSE, rows |-> <<>>]
    /\ trace = NoTrace
    /\ FnIdle

\* with open(FILENAME) as f: gj_data = geojson.load(f)
LoadOk ==
    /\ pc = "load" /\ file.exists
    /\ features' = file.features
    /\ pc' = "loop"
    /\ UNCHANGED <<file, idx, attributes_list, console, ring_data, distance,
                   df, csv, trace, fnVars>>

\* a load cell that catches the error and goes on with no features
LoadFailsContinue ==
    /\ pc = "load" /\ ~file.exists
    /\ features' = <<>>
    /\ pc' = "loop"
    /\ UNCHANGED <<file, idx, attributes_list, console, ring_data, distance,
                   df, csv, trace, fnVars>>

\* open() raises FileNotFoundError, which nothing catches
LoadFails ==
    /\ pc = "load" /\ ~file.exists
    /\ pc' = "crashed"
    /\ UNCHANGED <<file, features, idx, attributes_list, console, ring_data,
                   distance, df, csv, trace, fnVars>>

\* 1963 <= wf_year <= 2023 with the bounds left out of the range
YearInRangeStrict(wf_year) == MinYear < wf_year /\ wf_year < MaxYear

\* a test of the lower bound alone
YearInRangeLowerOnly(wf_year) == MinYear <= wf_year

\* 1963 <= wf_year <= 2023
YearInRange(wf_year) == MinYear <= wf_year /\ wf_year <= MaxYear

\* a test that lets every distance through
WithinThresholdAlways(d) == TRUE

\* distance[0] <= 1250.00
WithinThreshold(d) == d <= Threshold

\* a dict made anew with the distance alone
SetDistanceOnly(attributes, d) == [k \in {"Distance"} |-> d]

\* the distance written under the key of another attribute as well
SetDistanceClobber(attributes, d) ==
    [k \in DOMAIN attributes \cup {"Distance"} |->
        IF k \in {"Distance", "GIS_Acres"} THEN d ELSE attributes[k]]

\* feature_attributes['Distance'] = d
SetDistance(attributes, d) ==
    [k \in DOMAIN attributes \cup {"Distance"} |->
        IF k = "Distance" THEN d ELSE attributes[k]]

\* the coordinates a call of convert_ring_to_epsg4326 hands to transform:
\* those before the first coordinate that is too short, up to and including
\* the first one transform raises on
RECURSIVE TransformArgs(_, _)
TransformArgs(ringData, k) ==
    IF k > Len(ringData) \/ Len(ringData[k]) < 2 THEN <<>>
    ELSE IF ~WellFormed(ringData[k]) THEN <<ringData[k]>>
    ELSE <<ringData[k]>> \o TransformArgs(ringData, k + 1)

\* the points a call of the distance function hands to geodcalc.inv: each
\* point of the list convert_ring_to_epsg4326 returned ("for point in ring")
InvArgs(place, ringData) ==
    LET ring == convert_ring_to_epsg4326(ringData)
    IN  IF ring.exc # "none" THEN <<>> ELSE ring.val

CallTrace(place, ringData) ==
    [transformed |-> TransformArgs(ringData, 1),
     measured |-> InvArgs(place, ringData)]

\* a body that goes on with the ring_data of an earlier record when the
\* record has no first ring of its own
TryBodyStaleRing(feature, rd, dist) ==
    IF "Fire_Year" \notin DOMAIN feature.attributes
    THEN [what |-> "raise", exc |-> "KeyError 'Fire_Year'", rd |-> rd, dist |-> dist,
          tr |-> NoTrace]
    ELSE LET wf_year == feature.attributes.Fire_Year IN
    IF ~IsNum(wf_year)
    THEN [what |-> "raise", exc |-> "TypeError", rd |-> rd, dist |-> dist,
          tr |-> NoTrace]
    ELSE IF ~YearInRange(Val(wf_year))
    THEN [what |-> "skip", exc |-> "none", rd |-> rd, dist |-> dist,
          tr |-> NoTrace]
    ELSE LET ring == IF \/ "geometry" \notin DOMAIN feature
                        \/ "rings" \notin DOMAIN feature.geometry
                        \/ Len(feature.geometry.rings) = 0
                     THEN rd ELSE feature.geometry.rings[1]
             r == shortest_distance_from_place_to_fire_perimeter(
                      CITY_LOCATION.latlon, ring) IN
    IF r.exc # "none"
    THEN [what |-> "raise", exc |-> r.exc, rd |-> ring, dist |-> dist,
          tr |-> CallTrace(CITY_LOCATION.latlon, ring)]
    ELSE IF Len(r.val) = 0
    THEN [what |-> "raise", exc |-> "IndexError", rd |-> ring, dist |-> r.val,
          tr |-> CallTrace(CITY_LOCATION.latlon, ring)]
    ELSE IF WithinThreshold(r.val[1])
    THEN [what |-> "keep", exc |-> "none", rd |-> ring, dist |-> r.val,
          tr |-> CallTrace(CITY_LOCATION.latlon, ring)]
    ELSE [what |-> "skip", exc |-> "none", rd |-> ring, dist |-> r.val,
          tr |-> CallTrace(CITY_LOCATION.latlon, ring)]

\* The body of the try block for one feature, up to the test of the
\* distance. what: "raise" with the exception, "skip" (year out of range or
\* fire too far) or "keep"; rd and dist are the globals ring_data and
\* distance as the body leaves them, tr what the body handed to pyproj.
TryBody(feature, rd, dist) ==
    IF "Fire_Year" \notin DOMAIN feature.attributes
    THEN [what |-> "raise", exc |-> "KeyError 'Fire_Year'", rd |-> rd, dist |-> dist,
          tr |-> NoTrace]
    ELSE LET wf_year == feature.attributes.Fire_Year IN
    IF ~IsNum(wf_year)
    THEN [what |-> "raise", exc |-> "TypeError", rd |-> rd, dist |-> dist,
          tr |-> NoTrace]
    ELSE IF ~YearInRange(Val(wf_year))
    THEN [what |-> "skip", exc |-> "none", rd |-> rd, dist |-> dist,
          tr |-> NoTrace]
    ELSE IF "geometry" \notin DOMAIN feature
    THEN [what |-> "raise", exc |-> "KeyError 'geometry'", rd |-> rd, dist |-> dist,
          tr |-> NoTrace]
    ELSE IF "rings" \notin DOMAIN feature.geometry
    THEN [what |-> "raise", exc |-> "KeyError 'rings'", rd |-> rd, dist |-> dist,
          tr |-> NoTrace]
    ELSE IF Len(feature.geometry.rings) = 0
    THEN [what |-> "raise", exc |-> "IndexError", rd |-> rd, dist |-> dist,
          tr |-> NoTrace]
    ELSE LET ring == feature.geometry.rings[1]
             r == shortest_distance_from_place_to_fire_perimeter(
                      CITY_LOCATION.latlon, ring) IN
    IF r.exc # "none"
    THEN [what |-> "raise", exc |-> r.exc, rd |-> ring, dist |-> dist,
          tr |-> CallTrace(CITY_LOCATION.latlon, ring)]
    ELSE IF Len(r.val) = 0
    THEN [what |-> "raise", exc |-> "IndexError", rd |-> ring, dist |-> r.val,
          tr |-> CallTrace(CITY_LOCATION.latlon, ring)]
    ELSE IF WithinThreshold(r.val[1])
    THEN [what |-> "keep", exc |-> "none", rd |-> ring, dist |-> r.val,
          tr |-> CallTrace(CITY_LOCATION.latlon, ring)]
    ELSE [what |-> "skip", exc |-> "none", rd |-> ring, dist |-> r.val,
          tr |-> CallTrace(CITY_LOCATION.latlon, ring)]

\* an except clause that prints nothing
HandlerSilent(out, e) == out

\* except Exception as e: print(f"An error occurred : {e}")
Handler(out, e) == Append(out, e)

\* an except clause that catches KeyError only
CatchesKeyErrorOnly(e) ==
    e \in {"KeyError 'Fire_Year'", "KeyError 'geometry'", "KeyError 'rings'"}

\* except Exception: every exception the body raises is caught
Catches(e) == TRUE

\* an iteration that writes the distance into the record before the test
\* of the distance
ProcessFeatureMarksFirst ==
    /\ pc = "loop" /\ idx < Len(features)
    /\ LET b == TryBody(features[idx + 1], ring_data, distance) IN
        /\ ring_data' = b.rd
        /\ distance' = b.dist
        /\ trace' = b.tr
        /\ IF b.what = "keep" \/ (b.what = "skip" /\ b.tr # NoTrace)
           THEN features' = [features EXCEPT ![idx + 1].attributes =
                                SetDistance(@, b.dist[1])]
           ELSE UNCHANGED features
        /\ IF b.what = "keep"
           THEN attributes_list' = Append(attributes_list, idx + 1)
           ELSE UNCHANGED attributes_list
        /\ IF b.what = "raise" /\ Catches(b.exc)
           THEN console' = Handler(console, b.exc)
           ELSE UNCHANGED console
        /\ IF b.what = "raise" /\ ~Catches(b.exc)
           THEN pc' = "crashed" /\ UNCHANGED idx
           ELSE pc' = pc /\ idx' = idx + 1
    /\ UNCHANGED <<file, df, csv, fnVars>>

\* an iteration that puts a retained record at the head of the list
ProcessFeaturePrepend ==
    /\ pc = "loop" /\ idx < Len(features)
    /\ LET b == TryBody(features[idx + 1], ring_data, distance) IN
        /\ ring_data' = b.rd
        /\ distance' = b.dist
        /\ trace' = b.tr
        /\ IF b.what = "keep"
           THEN /\ features' = [features EXCEPT ![idx + 1].attributes =
                                   SetDistance(@, b.dist[1])]
                /\ attributes_list' = <<idx + 1>> \o attributes_list
           ELSE UNCHANGED <<features, attributes_list>>
        /\ IF b.what = "raise" /\ Catches(b.exc)
           THEN console' = Handler(console, b.exc)
           ELSE UNCHANGED console
        /\ IF b.what = "raise" /\ ~Catches(b.exc)
           THEN pc' = "crashed" /\ UNCHANGED idx
           ELSE pc' = pc /\ idx' = idx + 1
    /\ UNCHANGED <<file, df, csv, fnVars>>

\* an iteration that stays on a record whose processing raised, to try it
\* again
ProcessFeatureRetry ==
    /\ pc = "loop" /\ idx < Len(features)
    /\ LET b == TryBody(features[idx + 1], ring_data, distance) IN
        IF b.what = "raise"
        THEN UNCHANGED <<pc, idx, features, attributes_list, console,
                         ring_data, distance, trace>>
        ELSE /\ ring_data' = b.rd
             /\ distance' = b.dist
             /\ trace' = b.tr
             /\ IF b.what = "keep"
                THEN /\ features' = [features EXCEPT ![idx + 1].attributes =
                                        SetDistance(@, b.dist[1])]
                     /\ attributes_list' = Append(attributes_list, idx + 1)
                ELSE UNCHANGED <<features, attributes_list>>
             /\ UNCHANGED console
             /\ pc' = pc /\ idx' = idx + 1
    /\ UNCHANGED <<file, df, csv, fnVars>>

\* one iteration of "for feature in gj_data['features']"
ProcessFeature ==
    /\ pc = "loop" /\ idx < Len(features)
    /\ LET b == TryBody(features[idx + 1], ring_data, distance) IN
        /\ ring_data' = b.rd
        /\ distance' = b.dist
        /\ trace' = b.tr
        /\ IF b.what = "keep"
           THEN /\ features' = [features EXCEPT ![idx + 1].attributes =
                                   SetDistance(@, b.dist[1])]
                /\ attributes_list' = Append(attributes_list, idx + 1)
           ELSE UNCHANGED <<features, attributes_list>>
        /\ IF b.what = "raise" /\ Catches(b.exc)
           THEN console' = Handler(console, b.exc)
           ELSE UNCHANGED console
        /\ IF b.what = "raise" /\ ~Catches(b.exc)
           THEN pc' = "crashed" /\ UNCHANGED idx
           ELSE pc' = pc /\ idx' = idx + 1
    /\ UNCHANGED <<file, df, csv, fnVars>>

\* df = pd.DataFrame(attributes_list), once the loop is over
BuildFrame ==
    /\ pc = "loop" /\ idx = Len(features)
    /\ df' = [defined |-> TRUE,
              rows |-> [k \in 1..Len(attributes_list) |->
                           features[attributes_list[k]].attributes]]
    /\ pc' = "export"
    /\ UNCHANGED <<file, features, idx, attributes_list, console, ring_data,
                   distance, csv, trace, fnVars>>

\* an export that also saves what is retained so far while the loop runs
ExportCheckpoint ==
    /\ pc \in {"loop", "export"}
    /\ csv' = [written |-> TRUE,
               rows |-> [k \in 1..Len(attributes_list) |->
                            features[attributes_list[k]].attributes]]
    /\ pc' = IF pc = "export" THEN "done" ELSE pc
    /\ UNCHANGED <<file, features, idx, attributes_list, console, ring_data,
                   distance, df, trace, fnVars>>

\* df.to_csv(..., index=False)
Export ==
    /\ pc = "export"
    /\ csv' = [written |-> TRUE, rows |-> df.rows]
    /\ pc' = "done"
    /\ UNCHANGED <<file, features, idx, attributes_list, console, ring_data,
                   distance, df, trace, fnVars>>

Next == LoadOk \/ LoadFails \/ ProcessFeature \/ BuildFrame \/ Export

Spec == Init /\ [][Next]_vars

\* one record for every way the try block can go: no year, a year that is
\* no number, a year out of range (without geometry, with an empty ring,
\* with a ring close by), no geometry, no rings, no ring, a ring with a
\* coordinate that is too short, an empty ring, a fire within the threshold
\* and one beyond it
LiveFeatures ==
    LET of(y) == [GIS_Acres |-> 10, Fire_Year |-> Num(y)]
        ringed(y, r) == [attributes |-> of(y), geometry |-> [rings |-> <<r>>]]
    IN  {[attributes |-> [GIS_Acres |-> 10]],
         [attributes |-> [GIS_Acres |-> 10, Fire_Year |-> NotNum]],
         [attributes |-> of(MaxYear + 1)],
         ringed(MaxYear + 1, <<>>), ringed(MinYear - 1, <<Edge>>),
         [attributes |-> of(MinYear)],
         [attributes |-> of(MinYear), geometry |-> [curveRings |-> <<>>]],
         [attributes |-> of(MinYear), geometry |-> [rings |-> <<>>]],
         ringed(MinYear, <<TooShort>>), ringed(MinYear, <<>>),
         ringed(MinYear, <<Edge>>), ringed(MinYear, <<Far>>)}

LiveFiles ==
    {[exists |-> TRUE, features |-> fs] :
        fs \in SeqsUpTo(LiveFeatures, MaxFeatures)}
        \cup {[exists |-> FALSE, features |-> <<>>]}

InitLive ==
    /\ pc = "load"
    /\ file \in LiveFiles
    /\ features = <<>> /\ idx = 0 /\ attributes_list = <<>> /\ console = <<>>
    /\ ring_data = <<>> /\ distance = <<>>
    /\ df = [defined |-> FALSE, rows |-> <<>>]
    /\ csv = [written |-> FALSE, rows |-> <<>>]
    /\ trace = NoTrace
    /\ FnIdle

\* the cell of the loop, once started, runs to its last statement
SpecLive ==
    InitLive /\ [][Next]_vars /\ WF_vars(ProcessFeature) /\ WF_vars(BuildFrame)

(* ------------------ properties of the two functions -------------------- *)
\* the lat/lon point a well-formed projected coordinate stands for
VertexPoint(coord) == Transform(coord[1], coord[2]).val

\* miles between the place and a lat/lon point
MilesBetween(place, point) ==
    GeodInv(place[2], place[1], point[2], point[1])[3] * MilesPerUnit

Returned(fn) == call.fn = fn /\ call.result.exc = "none"

\* C1: for a non-empty ring, the distance that
\* shortest_distance_from_place_to_fire_perimeter returns is at most the
\* distance from the place to each vertex of the ring.
C1_DistanceIsMinimumOverVertices ==
    (Returned("shortest") /\ Len(call.arg) > 0) =>
        /\ Len(call.result.val) = 2
        /\ \A k \in 1..Len(call.arg) :
              call.result.val[1]
                  <= MilesBetween(call.place, VertexPoint(call.arg[k]))

\* a ring whose first vertex is strictly farther than a later one
C1_Witness ==
    /\ Returned("shortest") /\ Len(call.arg) >= 2
    /\ call.result.val[1]
          < MilesBetween(call.place, VertexPoint(call.arg[1]))
    /\ call.result.val[1]
          = MilesBetween(call.place, VertexPoint(call.arg[Len(call.arg)]))

\* C2: for a non-empty ring the function returns [distance, point] where
\* point is a reprojected vertex of the ring and distance is the distance
\* from the place to that point.
C2_DistanceAndPointAgree ==
    (Returned("shortest") /\ Len(call.arg) > 0) =>
        /\ Len(call.result.val) = 2
        /\ \E k \in 1..Len(call.arg) :
              call.result.val[2] = VertexPoint(call.arg[k])
        /\ call.result.val[1]
              = MilesBetween(call.place, call.result.val[2])

\* the closest point was replaced during the scan: it is the second vertex,
\* which differs from the first in place and in distance
C2_Witness ==
    /\ Returned("shortest") /\ Len(call.arg) = 2
    /\ call.result.val[2] = VertexPoint(call.arg[2])
    /\ call.result.val[2] # VertexPoint(call.arg[1])
    /\ MilesBetween(call.place, VertexPoint(call.arg[1]))
          # MilesBetween(call.place, VertexPoint(call.arg[2]))

\* C7: the nearest-perimeter computation on a ring with zero points raises
\* EmptyRing.
C7_EmptyRingRaises ==
    (call.fn = "shortest" /\ call.arg = <<>>) =>
        call.result.exc = "EmptyRing"

\* C8: convert_ring_to_epsg4326 on a ring with a malformed coordinate fails
\* with InvalidCoordinate and returns no partially converted ring.
C8_MalformedRaisesInvalidCoordinate ==
    (call.fn = "convert" /\ ~WellFormedRing(call.arg)) =>
        /\ call.result.exc = "InvalidCoordinate"
        /\ call.result.val = <<>>

\* C9: convert_ring_to_epsg4326 leaves its input as it was, and what it
\* returns has the length of the input and, at each position, the
\* reprojection of the input coordinate at that position.
C9_ConvertIsPureMap ==
    call.fn = "convert" =>
        /\ call.arg_after = call.arg
        /\ call.result.exc = "none" =>
              /\ Len(call.result.val) = Len(call.arg)
              /\ \A k \in 1..Len(call.arg) :
                    call.result.val[k] = VertexPoint(call.arg[k])

\* two different coordinates converted, in their order
C9_Witness ==
    /\ Returned("convert") /\ Len(call.arg) = 2
    /\ call.arg[1] # call.arg[2]
    /\ call.result.val = <<VertexPoint(call.arg[1]), VertexPoint(call.arg[2])>>

HasYear(f) ==
    "Fire_Year" \in DOMAIN f.attributes /\ IsNum(f.attributes.Fire_Year)

YearWithinBounds(f) ==
    /\ HasYear(f)
    /\ Val(f.attributes.Fire_Year) \in MinYear..MaxYear

\* no 'geometry', no 'rings', or an empty rings array
MissingGeometry(f) ==
    \/ "geometry" \notin DOMAIN f
    \/ "rings" \notin DOMAIN f.geometry
    \/ Len(f.geometry.rings) = 0

\* the first ring is there, has a vertex and only well-formed coordinates
GoodFirstRing(f) ==
    /\ ~MissingGeometry(f)
    /\ Len(f.geometry.rings[1]) > 0
    /\ WellFormedRing(f.geometry.rings[1])

\* d is the least distance from the place to a vertex of the first ring
IsNearestMiles(d, f) ==
    LET ring == f.geometry.rings[1]
        miles(k) == MilesBetween(CITY_LOCATION.latlon, VertexPoint(ring[k]))
    IN  /\ \E k \in 1..Len(ring) : d = miles(k)
        /\ \A k \in 1..Len(ring) : d <= miles(k)

\* the record is one the pipeline is to retain
Qualifies(f) ==
    /\ YearWithinBounds(f)
    /\ GoodFirstRing(f)
    /\ \E k \in 1..Len(f.geometry.rings[1]) :
          MilesBetween(CITY_LOCATION.latlon,
                       VertexPoint(f.geometry.rings[1][k])) <= Threshold

\* processing the record raises
Fails(f) ==
    \/ ~HasYear(f)
    \/ YearWithinBounds(f) /\ ~GoodFirstRing(f)

LoopOver == pc \in {"export", "done"}

\* the attributes of a retained record are those of the file plus Distance
Augmented(row, f, d) ==
    /\ DOMAIN row = DOMAIN f.attributes \cup {"Distance"}
    /\ \A key \in DOMAIN f.attributes \ {"Distance"} : row[key] = f.attributes[key]
    /\ row.Distance = d

RetainedRowOk(row, f) ==
    /\ YearWithinBounds(f)
    /\ GoodFirstRing(f)
    /\ "Distance" \in DOMAIN row
    /\ row.Distance <= Threshold
    /\ IsNearestMiles(row.Distance, f)
    /\ row.Fire_Year = f.attributes.Fire_Year

\* C3: once the loop is over, every record of attributes_list, and every
\* row written, has a Fire_Year within [1963, 2023] and a Distance that is
\* the nearest-perimeter distance of that record and is at most 1250.
C3_OutputOnlyQualifying ==
    LoopOver =>
        /\ \A k \in 1..Len(attributes_list) :
              RetainedRowOk(features[attributes_list[k]].attributes,
                            file.features[attributes_list[k]])
        /\ Len(df.rows) = Len(attributes_list)
        /\ \A k \in 1..Len(df.rows) :
              RetainedRowOk(df.rows[k], file.features[attributes_list[k]])
        /\ csv.written => csv.rows = df.rows

\* the output is written with one record in it while a record with a year
\* in range was left out for being too far
C3_Witness ==
    /\ pc = "done" /\ csv.written /\ Len(csv.rows) = 1
    /\ \E i \in 1..Len(file.features) :
          /\ YearWithinBounds(file.features[i]) /\ GoodFirstRing(file.features[i])
          /\ ~Qualifies(file.features[i])

\* C4: every record with a year within [1963, 2023] (bounds included), a
\* non-empty well-formed first ring and a nearest-perimeter distance of at
\* most 1250 (1250 included) is in the output exactly once.
C4_QualifyingRetainedOnce ==
    LoopOver =>
        \A i \in 1..Len(file.features) :
            Qualifies(file.features[i]) =>
                /\ Cardinality({k \in 1..Len(attributes_list) :
                                   attributes_list[k] = i}) = 1
                /\ Cardinality({k \in 1..Len(df.rows) :
                                   attributes_list[k] = i}) = 1
                /\ \A k \in 1..Len(df.rows) :
                      attributes_list[k] = i =>
                          /\ "Distance" \in DOMAIN df.rows[k]
                          /\ Augmented(df.rows[k], file.features[i],
                                       df.rows[k].Distance)

\* two records retained, one at each bound of the years, one of them at
\* exactly the threshold
C4_Witness ==
    /\ pc = "done" /\ Len(csv.rows) = 2
    /\ Val(csv.rows[1].Fire_Year) = MinYear
    /\ Val(csv.rows[2].Fire_Year) = MaxYear
    /\ csv.rows[1].Distance = Threshold

AtRecord == pc = "loop" /\ idx < Len(features)

\* the record is skipped with one more line on the console
SkippedAndLogged ==
    /\ attributes_list' = attributes_list
    /\ Len(console') = Len(console) + 1
    /\ SubSeq(console', 1, Len(console)) = console
    /\ pc' = "loop" /\ idx' = idx + 1

\* C5, as stated: a record without the geometry field is not added to the
\* output, has one message printed for it, and the loop goes on.
C5_MissingGeometryLogged ==
    [][(AtRecord /\ MissingGeometry(features[idx + 1])) => SkippedAndLogged]_vars

\* C5, amended: a record whose Fire_Year is within [1963, 2023] and that
\* has no geometry field is not added to the output, has one message
\* printed for it, and the loop goes on.
C5_InRangeMissingGeometryLogged ==
    [][(AtRecord /\ YearWithinBounds(features[idx + 1])
                 /\ MissingGeometry(features[idx + 1])) => SkippedAndLogged]_vars

\* a record with a year in range and no 'rings' was just logged, and the
\* loop has a record left to go on with
C5_Witness ==
    /\ pc = "loop" /\ idx >= 1 /\ idx < Len(features)
    /\ YearWithinBounds(features[idx])
    /\ "geometry" \in DOMAIN features[idx]
    /\ "rings" \notin DOMAIN features[idx].geometry
    /\ Len(console) >= 1 /\ console[Len(console)] = "KeyError 'rings'"

\* C6: a failure raised while one record is processed is swallowed and
\* logged: the record is not added, one message is printed, the run goes
\* on, and what was retained before stays as it was.
C6_FailureSwallowedAndLogged ==
    [][(AtRecord /\ Fails(features[idx + 1])) =>
          (SkippedAndLogged /\ features' = features)]_vars

\* the second record failed on a malformed coordinate after the first was
\* retained
C6_Witness ==
    /\ pc = "loop" /\ idx = 2 /\ attributes_list = <<1>>
    /\ Len(console) = 1
    /\ YearWithinBounds(features[2]) /\ ~MissingGeometry(features[2])
    /\ ~WellFormedRing(features[2].geometry.rings[1])

(* ------------------- reprojection before distance ---------------------- *)
\* C11: every point the pipeline hands to the geodesic distance is the
\* coordinate of the record's first ring reprojected once (neither the
\* projected coordinate itself nor a coordinate reprojected twice), and
\* each coordinate of that ring went through transform once.
C11_ReprojectedExactlyOnce ==
    /\ Len(trace.measured) > 0 =>
          /\ idx >= 1
          /\ LET raw == file.features[idx].geometry.rings[1] IN
              /\ trace.transformed = raw
              /\ Len(trace.measured) = Len(raw)
              /\ \A k \in 1..Len(raw) :
                    /\ trace.measured[k] = VertexPoint(raw[k])
                    /\ trace.measured[k] # <<Val(raw[k][1]), Val(raw[k][2])>>
    /\ Len(trace.measured) > 0 => distance # <<>>
    /\ (distance # <<>> /\ Len(trace.measured) > 0) =>
          \E k \in 1..Len(trace.measured) : distance[2] = trace.measured[k]

\* the distances of a ring of two different vertices were just computed
C11_Witness ==
    /\ pc = "loop" /\ idx >= 1
    /\ Len(trace.measured) = 2 /\ trace.measured[1] # trace.measured[2]
    /\ Len(trace.transformed) = 2

\* the pair of numbers of a coordinate, read as it was given
GivenPair(coord) == <<Val(coord[1]), Val(coord[2])>>

\* C12: the distance function takes a ring of lat/lon pairs and measures
\* the distances from the place to those pairs as given, with no further
\* transformation: the point it returns is one of the given pairs and the
\* distance is the least distance from the place to a given pair.
C12_MeasuresGivenPairs ==
    (Returned("shortest") /\ Len(call.arg) > 0) =>
        /\ \E k \in 1..Len(call.arg) :
              call.result.val[2] = GivenPair(call.arg[k])
        /\ \E k \in 1..Len(call.arg) :
              call.result.val[1]
                  = MilesBetween(call.place, GivenPair(call.arg[k]))
        /\ \A k \in 1..Len(call.arg) :
              call.result.val[1]
                  <= MilesBetween(call.place, GivenPair(call.arg[k]))

(* ------------------------------ output --------------------------------- *)
\* the row has the attributes of the record of the file, each with the
\* value it has there, and one more column, Distance, with the record's
\* nearest-perimeter distance
RowOfRecord(row, f) ==
    /\ DOMAIN row = DOMAIN f.attributes \cup {"Distance"}
    /\ "Distance" \notin DOMAIN f.attributes
    /\ \A key \in DOMAIN f.attributes : row[key] = f.attributes[key]
    /\ IsNearestMiles(row.Distance, f)

Loaded == pc \in {"loop", "export", "done"}

Retained(i) == \E k \in 1..Len(attributes_list) : attributes_list[k] = i

C15_FirstOfTiedVertices ==
    (Returned("shortest") /\ Len(call.arg) > 0) =>
        \E k \in 1..Len(call.arg) :
            /\ call.result.val[2] = VertexPoint(call.arg[k])
            /\ call.result.val[1]
                  = MilesBetween(call.place, VertexPoint(call.arg[k]))
            /\ \A j \in 1..(k - 1) :
                  MilesBetween(call.place, VertexPoint(call.arg[j]))
                      > call.result.val[1]

\* two different vertices at the same distance, the first returned
C15_Witness ==
    /\ Returned("shortest") /\ Len(call.arg) = 2
    /\ VertexPoint(call.arg[1]) # VertexPoint(call.arg[2])
    /\ MilesBetween(call.place, VertexPoint(call.arg[1]))
          = MilesBetween(call.place, VertexPoint(call.arg[2]))
    /\ call.result.val[2] = VertexPoint(call.arg[1])

(* -------------------------- whole-run failure -------------------------- *)
\* C16: when the input file cannot be opened the run stops there: no
\* record is processed, no DataFrame is built and no output file is
\* written.
C16_LoadFailureIsFatal ==
    ~file.exists =>
        /\ pc \in {"load", "crashed"}
        /\ features = <<>> /\ idx = 0 /\ attributes_list = <<>>
        /\ console = <<>> /\ trace = NoTrace
        /\ ~df.defined /\ ~csv.written

\* the load cell has failed
C16_Witness == pc = "crashed" /\ ~file.exists /\ ~csv.written

(* --------------------------- several rings ----------------------------- *)
\* C17: the ring the loop takes for the distance computation is the
\* largest ring of the feature (the one with the most vertices), wherever
\* it is in the rings array.
C17_LargestRingTaken ==
    Len(trace.measured) > 0 =>
        LET rings == file.features[idx].geometry.rings IN
        /\ \E j \in 1..Len(rings) : ring_data = rings[j]
        /\ \A j \in 1..Len(rings) : Len(ring_data) >= Len(rings[j])

(* ------------------------- ring without points ------------------------ *)
EmptyFirstRing(f) ==
    /\ YearWithinBounds(f) /\ ~MissingGeometry(f)
    /\ Len(f.geometry.rings[1]) = 0

\* C18: for a record whose ring has no points the distance function
\* returns the empty list without raising (the global distance is bound to
\* it), reading distance[0] then fails, the failure is logged and the
\* record is skipped: it is not retained, with no Distance at all.
C18_EmptyRingSkippedAndLogged ==
    [][(AtRecord /\ EmptyFirstRing(features[idx + 1])) =>
          /\ SkippedAndLogged
          /\ console' = Append(console, "IndexError")
          /\ distance' = <<>> /\ ring_data' = <<>>
          /\ trace' = NoTrace
          /\ features' = features]_vars

\* after a retained record, which left its distance in the global, the
\* record with the empty ring left the empty list there and one message
C18_Witness ==
    /\ pc = "loop" /\ idx = 2 /\ attributes_list = <<1>>
    /\ EmptyFirstRing(features[2])
    /\ distance = <<>> /\ console = <<"IndexError">>
    /\ "Distance" \notin DOMAIN features[2].attributes

(* ----------------------- invariant of the scan ------------------------- *)
\* after k vertices closest_point is empty exactly when k = 0, and
\* otherwise holds the least distance over the first k vertices with the
\* earliest of them at that distance
ScanInvariant ==
    LET cp == scan.closest_point
        miles(j) == MilesBetween(scan.place, scan.ring[j])
    IN  /\ (Len(cp) = 0) <=> (scan.k = 0)
        /\ scan.k > 0 =>
              /\ Len(cp) = 2
              /\ \A j \in 1..scan.k : cp[1] <= miles(j)
              /\ \E j \in 1..scan.k :
                    /\ cp[2] = scan.ring[j] /\ cp[1] = miles(j)
                    /\ \A i \in 1..(j - 1) : miles(i) > cp[1]

\* from one iteration to the next the distance held does not increase
ScanNonIncreasing ==
    (scan.k > 0 /\ scan'.k = scan.k + 1) =>
        scan'.closest_point[1] <= scan.closest_point[1]

\* C19: the invariant of the linear scan holds after every iteration and
\* the distance held never increases from one iteration to the next.
C19_ScanLoopInvariant == []ScanInvariant /\ [][ScanNonIncreasing]_vars

\* the second iteration replaced the point of the first by a closer one
C19_Witness ==
    /\ scan.k = 2
    /\ scan.closest_point[2] = scan.ring[2]
    /\ scan.closest_point[1] < MilesBetween(scan.place, scan.ring[1])

(* ------------------ the output and the end of the loop ------------------ *)
\* the records the loop has retained, as rows
RetainedRows ==
    [k \in 1..Len(attributes_list) |-> features[attributes_list[k]].attributes]

\* C20: nothing is written before the loop has visited every record (no
\* frame and no file while records are being processed, or after a run
\* that stopped), and what is written is the complete set of retained
\* records.
C20_OutputOnlyAfterLoop ==
    /\ pc \in {"load", "loop", "crashed"} =>
          /\ ~df.defined /\ df.rows = <<>>
          /\ ~csv.written /\ csv.rows = <<>>
    /\ pc = "export" => ~csv.written /\ csv.rows = <<>>
    /\ df.defined =>
          /\ idx = Len(features) /\ Len(features) = Len(file.features)
          /\ df.rows = RetainedRows
    /\ csv.written =>
          /\ pc = "done" /\ df.defined
          /\ idx = Len(features) /\ Len(features) = Len(file.features)
          /\ csv.rows = RetainedRows
          /\ {attributes_list[k] : k \in 1..Len(attributes_list)} =
                 {i \in 1..Len(file.features) : Qualifies(file.features[i])}

\* the output is written after a loop over two records that retained the
\* second one and logged the failure of the first
C20_Witness ==
    /\ pc = "done" /\ csv.written
    /\ idx = 2 /\ Len(features) = 2
    /\ attributes_list = <<2>> /\ Len(console) = 1
    /\ csv.rows = <<features[2].attributes>>

(* ------------------- no state shared across records -------------------- *)
\* the try block run on the record with ring_data and distance not yet
\* assigned: the record processed on its own
Alone(f) == TryBody(f, <<>>, <<>>)

\* the positions the loop has been through
Processed == 1..idx

\* C21: whatever the other records of the input are, and whatever they
\* left in ring_data and distance, a processed record is retained exactly
\* when it is retained processed on its own, and with the same Distance.
C21_OutcomeDependsOnRecordOnly ==
    \A i \in Processed :
        LET alone == Alone(file.features[i]) IN
        /\ Retained(i) <=> alone.what = "keep"
        /\ Retained(i) =>
              /\ "Distance" \in DOMAIN features[i].attributes
              /\ features[i].attributes.Distance = alone.dist[1]

\* a retained record left its ring and its distance behind, and the next
\* record, within the years but without geometry, was not retained
C21_Witness ==
    /\ pc = "loop" /\ idx = 2 /\ attributes_list = <<1>>
    /\ YearWithinBounds(features[2]) /\ MissingGeometry(features[2])
    /\ Len(distance) = 2 /\ distance[1] <= Threshold
    /\ Len(ring_data) > 0

(* ----------------------- the loop comes to an end ----------------------- *)
\* an iteration takes the next record of the list, and no other
VisitsNext ==
    (pc = "loop" /\ (idx' # idx \/ trace' # trace \/ console' # console
                       \/ attributes_list' # attributes_list)) =>
        /\ idx < Len(features) /\ idx' = idx + 1
        /\ trace' = Alone(features[idx + 1]).tr
        /\ Len(attributes_list') + Len(console') <=
               Len(attributes_list) + Len(console) + 1

\* the loop is left only from behind the last record
LeavesAtEnd ==
    (pc = "loop" /\ pc' # "loop") =>
        pc' = "export" /\ idx = Len(features) /\ idx' = idx

\* C22: the loop visits the records one after the other in list order,
\* each one once, whatever becomes of them, and comes to its end.
C22_LoopTerminates ==
    /\ [][VisitsNext]_vars
    /\ [][LeavesAtEnd]_vars
    /\ (pc = "loop") ~> (pc = "export" /\ idx = Len(features))

\* the loop is over after two records, one that failed and one that was
\* out of the years or too far
C22_Witness ==
    /\ pc = "export" /\ idx = 2 /\ Len(features) = 2
    /\ attributes_list = <<>> /\ Len(console) = 1
    /\ \E i \in 1..2 : Fails(features[i])
    /\ \E i \in 1..2 : ~Fails(features[i]) /\ ~Qualifies(features[i])

(* ---------------------- the order of the output ------------------------ *)
\* attributes_list names records processed so far, in the order of the
\* input list, and the rows built and written follow it
InInputOrder ==
    /\ \A k \in 1..Len(attributes_list) : attributes_list[k] \in Processed
    /\ \A j, k \in 1..Len(attributes_list) :
          j < k => attributes_list[j] < attributes_list[k]
    /\ df.defined => df.rows = RetainedRows
    /\ csv.written => csv.rows = RetainedRows

\* attributes_list changes by an append of the record being processed
OnlyAppends ==
    attributes_list' # attributes_list =>
        /\ AtRecord
        /\ attributes_list' = Append(attributes_list, idx + 1)

\* C23: attributes_list is at every step a subsequence, in input order, of
\* the records processed so far, grows only by appending, and the output
\* rows keep that order.
C23_OrderPreserved == []InInputOrder /\ [][OnlyAppends]_vars

\* two different records were retained and written in their input order
C23_Witness ==
    /\ pc = "done" /\ csv.written /\ attributes_list = <<1, 2>>
    /\ csv.rows[1] # csv.rows[2]
    /\ csv.rows[1].Fire_Year = file.features[1].attributes.Fire_Year
    /\ csv.rows[2].Fire_Year = file.features[2].attributes.Fire_Year

(* ------------------- records out of the range of years ----------------- *)
\* the record has a year, and it is not within [1963, 2023]
OutOfYears(f) == HasYear(f) /\ ~YearWithinBounds(f)

\* C24: the iteration over a record with a year out of [1963, 2023] hands
\* nothing to pyproj, leaves ring_data and distance as they were (the
\* geometry is not read, so that its absence raises nothing), retains
\* nothing and prints nothing.
C24_OutOfYearsUntouched ==
    [][(AtRecord /\ OutOfYears(features[idx + 1])) =>
          /\ pc' = "loop" /\ idx' = idx + 1
          /\ trace' = NoTrace
          /\ ring_data' = ring_data /\ distance' = distance
          /\ attributes_list' = attributes_list
          /\ console' = console
          /\ features' = features
          /\ df' = df /\ csv' = csv]_vars

\* after a retained record, a record of the year after the last one, with
\* an empty ring, went by: ring_data and distance are still those of the
\* retained record and nothing was printed
C24_Witness ==
    /\ pc = "loop" /\ idx = 2 /\ attributes_list = <<1>>
    /\ OutOfYears(features[2])
    /\ "geometry" \in DOMAIN features[2]
    /\ features[2].geometry.rings = << <<>> >>
    /\ ring_data = features[1].geometry.rings[1] /\ Len(distance) = 2
    /\ trace = NoTrace /\ console = <<>>

(* -------------------- records that are not retained -------------------- *)
\* a row of the output is a whole one: the attributes of its record and
\* the distance of that record
WholeRow(row, f) ==
    /\ "Distance" \in DOMAIN row
    /\ Augmented(row, f, row.Distance)
    /\ ~Fails(f) /\ IsNearestMiles(row.Distance, f)

\* no processed record that is not retained has changed, and the rows are
\* whole
NotRetainedAsLoaded ==
    /\ \A i \in Processed :
          ~Retained(i) =>
              /\ features[i] = file.features[i]
              /\ "Distance" \notin DOMAIN features[i].attributes
    /\ \A k \in 1..Len(attributes_list) :
          WholeRow(features[attributes_list[k]].attributes,
                   file.features[attributes_list[k]])
    /\ \A k \in 1..Len(csv.rows) :
          WholeRow(csv.rows[k], file.features[attributes_list[k]])

\* an iteration that retains nothing changes no record
SkipChangesNothing ==
    (AtRecord /\ attributes_list' = attributes_list) => features' = features

\* C25: a record that is not retained, for its year, its distance or a
\* failure, is left as it was loaded, without a Distance, and every record
\* of the output is a whole one.
C25_NotRetainedUnmodified == []NotRetainedAsLoaded /\ [][SkipChangesNothing]_vars

\* the output is written with the second record alone; the first, within
\* the years and with a good ring, was too far and is as it was loaded
C25_Witness ==
    /\ pc = "done" /\ csv.written /\ attributes_list = <<2>>
    /\ YearWithinBounds(file.features[1]) /\ GoodFirstRing(file.features[1])
    /\ ~Qualifies(file.features[1])
    /\ features[1] = file.features[1]
    /\ "Distance" \notin DOMAIN features[1].attributes
    /\ Len(distance) = 2

====
